---- MODULE Spec2Model ----
(***************************************************************************)
(* Model of the AvidBase Go SDK token handling and REST operations.        *)
(* Two packages are modelled side by side:                                 *)
(*   "strict"  - package avidbase (src/auth.go): every operation returns   *)
(*               (value, error);                                           *)
(*   "lenient" - package go_auth (src/unnamed/part_000): failures collapse *)
(*               to zero values, and a user token is kept next to the      *)
(*               machine token.                                            *)
(* The remote service is the environment: each HTTP call receives a        *)
(* nondeterministically chosen response (or a transport error).            *)
(***************************************************************************)
EXTENDS Integers, Sequences, FiniteSets, TLC

VARIABLES variant, baseUrl, accountId, apiKey, machineAccessToken,
          userAccessToken, last, pc, accessToken, writers, sent, posts

vars == <<variant, baseUrl, accountId, apiKey, machineAccessToken,
          userAccessToken, last, pc, accessToken, writers, sent, posts>>

globals == <<baseUrl, accountId, apiKey, machineAccessToken, userAccessToken>>
concVars == <<pc, accessToken, writers, sent, posts>>

----------------------------------------------------------------------------
(* Bounds *)
MaxIdLen == 3
MaxUsers == 2
NumProcs == 2

(* Program constant: net/http StatusOK *)
StatusOK == 200

----------------------------------------------------------------------------
(* Go pointers to strings: nil is the empty tuple, &s is <<s>> *)
NIL == <<>>
Ptr(s) == <<s>>
Deref(p) == p[1]

(* opaque values: two tokens and two keys tell "kept" from "replaced" *)
Tokens == {"T1", "T2"}
Accounts == {"acct1"}
Keys == {"", "key1"}
Passwords == {"", "pw"}
UserIds == {"u1", "u\n"}
UserInputs == {"alice", "badData"}

Chars == {"u", "@"}
RECURSIVE SeqsUpTo(_, _)
SeqsUpTo(S, n) ==
    IF n = 0 THEN {<<>>}
    ELSE LET shorter == SeqsUpTo(S, n - 1)
         IN shorter \cup {Append(s, c) : s \in {t \in shorter : Len(t) = n - 1}, c \in S}
(* every identifier over Chars up to MaxIdLen, and some with dots *)
Identifiers ==
    SeqsUpTo(Chars, MaxIdLen) \cup
    {<<"u", ".", "u", "@", "u", ".", "u">>, <<".", "u", "@", "u">>,
     <<"u", "@", "u", ".">>, <<"u", ".", ".", "u", "@", "u">>}

----------------------------------------------------------------------------
(* JSON response bodies and encoding/json decoding *)
JObject(id) == [kind |-> "object", id |-> id, elems |-> <<>>]
JArray(es) == [kind |-> "array", id |-> "", elems |-> es]
JNull == [kind |-> "null", id |-> "", elems |-> <<>>]
JMalformed == [kind |-> "malformed", id |-> "", elems |-> <<>>]

(* an array element is the JSON object of a user (its id) or "#", a JSON
   value that is not an object *)
RecordBodies == {JObject("u1"), JNull, JMalformed}
ListBodies ==
    {JArray(es) : es \in SeqsUpTo({"u1", "u2"}, MaxUsers)} \cup
    {JArray(<<"#">>), JArray(<<"u1", "#">>), JObject("u1"), JNull, JMalformed}
(* bodies of the non-OK responses: an error text, or JSON that would decode *)
RecordErrorBodies == {JObject("u1"), JMalformed}
ListErrorBodies == {JArray(<<"u1">>), JMalformed}

(* what an HTTP call comes back with: a transport error (NoResponse) or a
   response with a status, an Access-Token header ("" when absent), a body *)
NoResponse == <<>>
Responses(okBodies, errorBodies) ==
    {NoResponse} \cup
    {<<[status |-> StatusOK, header |-> h, body |-> b]>> :
        h \in Tokens \cup {""}, b \in okBodies} \cup
    {<<[status |-> 401, header |-> h, body |-> b]>> :
        h \in Tokens \cup {""}, b \in errorBodies}
RecordResponses == Responses(RecordBodies, RecordErrorBodies)
ListResponses == Responses(ListBodies, ListErrorBodies)
TokenResponses == Responses({JNull}, {JMalformed})
(* the responses to draw for a call that is made only when sentCond holds *)
ResponsesIf(sentCond, responses) == IF sentCond THEN responses ELSE {NoResponse}

EmptySlice == [nil |-> FALSE, elems |-> <<>>]
NilSlice == [nil |-> TRUE, elems |-> <<>>]

(* json.NewDecoder(body).Decode(&identity): a struct target *)
DecodeIdentity(body, cur) ==
    CASE body.kind = "object" -> [val |-> body.id, err |-> FALSE]
      [] body.kind = "null" -> [val |-> cur, err |-> FALSE]
      [] OTHER -> [val |-> cur, err |-> TRUE]

(* json.NewDecoder(body).Decode(&users): a slice target.  null sets the
   slice to nil; an element of the wrong JSON type is left zero-valued, the
   rest is decoded and the first such error is returned. *)
DecodeUsers(body, cur) ==
    CASE body.kind = "array" ->
           [val |-> [nil |-> FALSE,
                     elems |-> [i \in 1..Len(body.elems) |->
                                  IF body.elems[i] = "#" THEN "" ELSE body.elems[i]]],
            err |-> \E i \in 1..Len(body.elems) : body.elems[i] = "#"]
      [] body.kind = "null" -> [val |-> NilSlice, err |-> FALSE]
      [] OTHER -> [val |-> cur, err |-> TRUE]

----------------------------------------------------------------------------
(* net/mail ParseAddress on identifiers over Chars: an addr-spec is
   local-part "@" domain, both dot-atoms, with nothing after it *)
IsDotAtom(s) ==
    /\ Len(s) > 0
    /\ s[1] # "." /\ s[Len(s)] # "."
    /\ \A i \in 1..Len(s) : s[i] # "@"
    /\ \A i \in 1..(Len(s) - 1) : ~(s[i] = "." /\ s[i + 1] = ".")

ParseAddressOk(s) ==
    \E i \in 1..Len(s) :
        /\ s[i] = "@"
        /\ IsDotAtom(SubSeq(s, 1, i - 1))
        /\ IsDotAtom(SubSeq(s, i + 1, Len(s)))

(* http.NewRequest fails when the URL does not parse (a control character
   in the user id); json.Marshal fails on a Data map holding a value that
   has no JSON encoding *)
NewRequestOk(path) == \A i \in 1..Len(path) : path[i] # "u\n"
MarshalOk(user) == user # "badData"

----------------------------------------------------------------------------
(* The record of the last operation: what it sent, received and returned *)
BlankLast(op) ==
    [op |-> op, check |-> "n/a", tokenReq |-> <<>>, tokenResp |-> NoResponse,
     req |-> <<>>,
     resp |-> NoResponse, users |-> NilSlice, identity |-> "", flag |-> FALSE,
     accessToken |-> "", err |-> FALSE, panic |-> FALSE]

(* req.Header.Set("Access-Token", *tokenPtr) and the send: dereferencing a
   nil pointer panics before anything is sent *)
Send(l, method, path, body, tokenPtr) ==
    IF tokenPtr = NIL
    THEN [l EXCEPT !.panic = TRUE]
    ELSE [l EXCEPT !.req = <<[method |-> method, path |-> path, body |-> body,
                              token |-> Deref(tokenPtr)]>>]

----------------------------------------------------------------------------
(* package avidbase (strict) *)

Strict_InitClearsToken ==
    /\ variant = "strict"
    /\ \E account \in Accounts, key \in Keys, isProduction \in BOOLEAN :
         /\ baseUrl' = IF isProduction THEN "https://api.avidbase.com/"
                                       ELSE "https://dev-api.avidbase.com/"
         /\ accountId' = Ptr(account)
         /\ apiKey' = Ptr(key)
    /\ machineAccessToken' = NIL
    /\ last' = BlankLast("Init")
    /\ UNCHANGED <<variant, userAccessToken, concVars>>

Strict_Init ==
    /\ variant = "strict"
    /\ \E account \in Accounts, key \in Keys, isProduction \in BOOLEAN :
         /\ baseUrl' = IF isProduction THEN "https://api.avidbase.com/"
                                       ELSE "https://dev-api.avidbase.com/"
         /\ accountId' = Ptr(account)
         /\ apiKey' = Ptr(key)
    /\ last' = BlankLast("Init")
    /\ UNCHANGED <<variant, machineAccessToken, userAccessToken, concVars>>

(* the result of a token check: whether it passed, the machine token
   afterwards, and the token-acquisition request it issued (if any) *)
Strict_generateStoresAnyHeader(mat, acct, key, tr) ==
    IF acct = NIL \/ key = NIL
    THEN [ok |-> FALSE, token |-> mat, tokenReq |-> <<>>]
    ELSE LET treq == <<[account |-> Deref(acct), api_key |-> Deref(key)]>>
         IN IF tr = NoResponse
            THEN [ok |-> FALSE, token |-> mat, tokenReq |-> treq]
            ELSE IF tr[1].status # StatusOK \/ tr[1].header = ""
            THEN [ok |-> FALSE, token |-> Ptr(tr[1].header), tokenReq |-> treq]
            ELSE [ok |-> TRUE, token |-> Ptr(tr[1].header), tokenReq |-> treq]

Strict_generateMachineAccessToken(mat, acct, key, tr) ==
    IF acct = NIL \/ key = NIL
    THEN [ok |-> FALSE, token |-> mat, tokenReq |-> <<>>]
    ELSE LET treq == <<[account |-> Deref(acct), api_key |-> Deref(key)]>>
         IN IF tr = NoResponse
            THEN [ok |-> FALSE, token |-> mat, tokenReq |-> treq]
            ELSE IF tr[1].status # StatusOK \/ tr[1].header = ""
            THEN [ok |-> FALSE, token |-> mat, tokenReq |-> treq]
            ELSE [ok |-> TRUE, token |-> Ptr(tr[1].header), tokenReq |-> treq]

Strict_isValidAlwaysGenerates(mat, acct, key, tr) ==
    Strict_generateMachineAccessToken(mat, acct, key, tr)

Strict_isValidMachineAccessToken(mat, acct, key, tr) ==
    IF mat = NIL
    THEN Strict_generateMachineAccessToken(mat, acct, key, tr)
    ELSE [ok |-> TRUE, token |-> mat, tokenReq |-> <<>>]

(* the token endpoint answers only when generateMachineAccessToken calls it *)
TokenInputs(mat, acct, key) ==
    ResponsesIf(mat = NIL /\ acct # NIL /\ key # NIL, TokenResponses)

(* Login: the body of the POST to v1/auth *)
Strict_LoginBodyAlwaysEmail(account, emailOrUsername, password) ==
    [account_uuid |-> account, password |-> password, email |-> emailOrUsername]

Strict_LoginBody(account, emailOrUsername, password) ==
    IF ~ParseAddressOk(emailOrUsername)
    THEN [account_uuid |-> account, password |-> password,
          username |-> emailOrUsername]
    ELSE [account_uuid |-> account, password |-> password,
          email |-> emailOrUsername]

(* Login after http.Post: transport error, non-OK status, missing header,
   decode error, and only then the token *)
Strict_LoginResultAnyHeader(l, r) ==
    IF r = NoResponse THEN [l EXCEPT !.err = TRUE]
    ELSE [l EXCEPT !.resp = r, !.err = (r[1].status # StatusOK),
                   !.accessToken = r[1].header]

Strict_LoginResult(l, r) ==
    IF r = NoResponse THEN [l EXCEPT !.err = TRUE]
    ELSE IF r[1].status # StatusOK THEN [l EXCEPT !.resp = r, !.err = TRUE]
    ELSE IF r[1].header = "" THEN [l EXCEPT !.resp = r, !.err = TRUE]
    ELSE LET d == DecodeIdentity(r[1].body, l.identity)
         IN IF d.err
            THEN [l EXCEPT !.resp = r, !.identity = d.val, !.err = TRUE]
            ELSE [l EXCEPT !.resp = r, !.identity = d.val,
                           !.accessToken = r[1].header]

Strict_Login ==
    /\ variant = "strict"
    /\ \E emailOrUsername \in Identifiers, password \in Passwords :
         LET missing == accountId = NIL \/ emailOrUsername = <<>> \/ password = ""
             l0 == BlankLast("Login")
         IN \E r \in ResponsesIf(~missing, RecordResponses) :
              last' =
                IF missing
                THEN [l0 EXCEPT !.err = TRUE]
                ELSE Strict_LoginResult(
                       [l0 EXCEPT !.req =
                          <<[method |-> "POST", path |-> <<"v1/auth">>,
                             body |-> Strict_LoginBody(Deref(accountId),
                                         emailOrUsername, password),
                             token |-> ""]>>], r)
    /\ UNCHANGED <<variant, globals, concVars>>

(* the part every strict operation shares after client.Do: transport error,
   non-OK status, then the decode of the body into the named result *)
Strict_UsersResult(l, r) ==
    IF l.panic THEN l
    ELSE IF r = NoResponse THEN [l EXCEPT !.err = TRUE]
    ELSE IF r[1].status # StatusOK THEN [l EXCEPT !.resp = r, !.err = TRUE]
    ELSE LET d == DecodeUsers(r[1].body, l.users)
         IN [l EXCEPT !.resp = r, !.users = d.val, !.err = d.err]

Strict_IdentityResultIgnoresStatus(l, r) ==
    IF l.panic THEN l
    ELSE IF r = NoResponse THEN [l EXCEPT !.err = TRUE]
    ELSE LET d == DecodeIdentity(r[1].body, l.identity)
         IN [l EXCEPT !.resp = r, !.identity = d.val, !.err = d.err]

Strict_IdentityResult(l, r) ==
    IF l.panic THEN l
    ELSE IF r = NoResponse THEN [l EXCEPT !.err = TRUE]
    ELSE IF r[1].status # StatusOK THEN [l EXCEPT !.resp = r, !.err = TRUE]
    ELSE LET d == DecodeIdentity(r[1].body, l.identity)
         IN [l EXCEPT !.resp = r, !.identity = d.val, !.err = d.err]

Strict_ListUsers ==
    /\ variant = "strict"
    /\ \E tr \in TokenInputs(machineAccessToken, accountId, apiKey) :
         LET chk == Strict_isValidMachineAccessToken(machineAccessToken,
                                                     accountId, apiKey, tr)
             l0 == [BlankLast("ListUsers") EXCEPT !.users = EmptySlice,
                        !.tokenReq = chk.tokenReq,
                        !.tokenResp = tr,
                        !.check = IF chk.ok THEN "pass" ELSE "fail"]
         IN /\ machineAccessToken' = chk.token
            /\ \E r \in ResponsesIf(chk.ok, ListResponses) :
                 last' = IF ~chk.ok THEN [l0 EXCEPT !.err = TRUE]
                         ELSE Strict_UsersResult(
                                Send(l0, "GET", <<"v1/user">>, <<>>, chk.token), r)
    /\ UNCHANGED <<variant, baseUrl, accountId, apiKey, userAccessToken, concVars>>

Strict_GetUser ==
    /\ variant = "strict"
    /\ \E userId \in UserIds,
          tr \in TokenInputs(machineAccessToken, accountId, apiKey) :
         LET chk == Strict_isValidMachineAccessToken(machineAccessToken,
                                                     accountId, apiKey, tr)
             l0 == [BlankLast("GetUser") EXCEPT !.tokenReq = chk.tokenReq,
                        !.tokenResp = tr,
                        !.check = IF chk.ok THEN "pass" ELSE "fail"]
             built == NewRequestOk(<<"v1/user/", userId>>)
         IN /\ machineAccessToken' = chk.token
            /\ \E r \in ResponsesIf(chk.ok /\ built, RecordResponses) :
                 last' = IF ~chk.ok THEN [l0 EXCEPT !.err = TRUE]
                         ELSE IF ~built THEN [l0 EXCEPT !.err = TRUE]
                         ELSE Strict_IdentityResult(
                                Send(l0, "GET", <<"v1/user/", userId>>, <<>>,
                                     chk.token), r)
    /\ UNCHANGED <<variant, baseUrl, accountId, apiKey, userAccessToken, concVars>>

Strict_CreateUser ==
    /\ variant = "strict"
    /\ \E user \in UserInputs,
          tr \in TokenInputs(machineAccessToken, accountId, apiKey) :
         LET chk == Strict_isValidMachineAccessToken(machineAccessToken,
                                                     accountId, apiKey, tr)
             l0 == [BlankLast("CreateUser") EXCEPT !.tokenReq = chk.tokenReq,
                        !.tokenResp = tr,
                        !.check = IF chk.ok THEN "pass" ELSE "fail"]
         IN /\ machineAccessToken' = chk.token
            /\ \E r \in ResponsesIf(chk.ok /\ MarshalOk(user), RecordResponses) :
                 last' = IF ~chk.ok THEN [l0 EXCEPT !.err = TRUE]
                         ELSE IF ~MarshalOk(user) THEN [l0 EXCEPT !.err = TRUE]
                         ELSE Strict_IdentityResult(
                                Send(l0, "POST", <<"v1/user">>, [user |-> user],
                                     chk.token), r)
    /\ UNCHANGED <<variant, baseUrl, accountId, apiKey, userAccessToken, concVars>>

Strict_UpdateUser ==
    /\ variant = "strict"
    /\ \E userId \in UserIds, user \in UserInputs,
          tr \in TokenInputs(machineAccessToken, accountId, apiKey) :
         LET chk == Strict_isValidMachineAccessToken(machineAccessToken,
                                                     accountId, apiKey, tr)
             l0 == [BlankLast("UpdateUser") EXCEPT !.tokenReq = chk.tokenReq,
                        !.tokenResp = tr,
                        !.check = IF chk.ok THEN "pass" ELSE "fail"]
             built == MarshalOk(user) /\ NewRequestOk(<<"v1/user/", userId>>)
         IN /\ machineAccessToken' = chk.token
            /\ \E r \in ResponsesIf(chk.ok /\ built, RecordResponses) :
                 last' = IF ~chk.ok THEN [l0 EXCEPT !.err = TRUE]
                         ELSE IF ~built THEN [l0 EXCEPT !.err = TRUE]
                         ELSE Strict_IdentityResult(
                                Send(l0, "PUT", <<"v1/user/", userId>>,
                                     [user |-> user], chk.token), r)
    /\ UNCHANGED <<variant, baseUrl, accountId, apiKey, userAccessToken, concVars>>

----------------------------------------------------------------------------
(* package go_auth (lenient) *)

Lenient_Init ==
    /\ variant = "lenient"
    /\ \E account \in Accounts, key \in Keys :
         /\ baseUrl' = "https://dev-api.avidbase.com/"
         /\ accountId' = Ptr(account)
         /\ apiKey' = Ptr(key)
    /\ last' = BlankLast("Init")
    /\ UNCHANGED <<variant, machineAccessToken, userAccessToken, concVars>>

Lenient_generateMachineAccessToken(mat, acct, key, tr) ==
    IF acct = NIL \/ key = NIL
    THEN [ok |-> FALSE, token |-> mat, tokenReq |-> <<>>]
    ELSE LET treq == <<[account |-> Deref(acct), api_key |-> Deref(key)]>>
         IN IF tr = NoResponse
            THEN [ok |-> FALSE, token |-> mat, tokenReq |-> treq]
            ELSE IF tr[1].status # StatusOK \/ tr[1].header = ""
            THEN [ok |-> FALSE, token |-> mat, tokenReq |-> treq]
            ELSE [ok |-> TRUE, token |-> Ptr(tr[1].header), tokenReq |-> treq]

Lenient_isValidMachineAccessToken(mat, acct, key, tr) ==
    IF mat = NIL
    THEN Lenient_generateMachineAccessToken(mat, acct, key, tr)
    ELSE [ok |-> TRUE, token |-> mat, tokenReq |-> <<>>]

IsLoggedIn == userAccessToken # NIL /\ Deref(userAccessToken) # ""

GetUserAccessToken == IF userAccessToken = NIL THEN "" ELSE Deref(userAccessToken)

(* "Set the user access token if it exists": the user token after a
   response r *)
Lenient_RefreshOnlyWhenOK(uat, r) ==
    IF r[1].header # "" /\ r[1].status = StatusOK THEN Ptr(r[1].header) ELSE uat

Lenient_Refresh(uat, r) ==
    IF r[1].header # "" THEN Ptr(r[1].header) ELSE uat

Lenient_LoginBody(key, email, password) ==
    [api_key |-> key, email |-> email, password |-> password]

Lenient_Login ==
    /\ variant = "lenient"
    /\ \E email \in Identifiers, password \in Passwords :
         LET missing == apiKey = NIL \/ email = <<>> \/ password = ""
             l0 == BlankLast("Login")
             l1 == [l0 EXCEPT !.req =
                      <<[method |-> "POST", path |-> <<"v1/auth">>,
                         body |-> Lenient_LoginBody(Deref(apiKey), email, password),
                         token |-> ""]>>]
         IN \E r \in ResponsesIf(~missing, RecordResponses) :
              IF missing
              THEN /\ last' = l0
                   /\ UNCHANGED userAccessToken
              ELSE IF r = NoResponse
              THEN /\ last' = l1
                   /\ UNCHANGED userAccessToken
              ELSE /\ userAccessToken' = Lenient_Refresh(userAccessToken, r)
                   /\ last' =
                        IF r[1].status = StatusOK
                        THEN [l1 EXCEPT !.resp = r,
                                !.identity = DecodeIdentity(r[1].body,
                                                            l1.identity).val]
                        ELSE [l1 EXCEPT !.resp = r]
    /\ UNCHANGED <<variant, baseUrl, accountId, apiKey, machineAccessToken, concVars>>

Lenient_ListUsers ==
    /\ variant = "lenient"
    /\ \E tr \in TokenInputs(machineAccessToken, accountId, apiKey) :
         LET chk == Lenient_isValidMachineAccessToken(machineAccessToken,
                                                      accountId, apiKey, tr)
             l0 == [BlankLast("ListUsers") EXCEPT !.users = EmptySlice,
                        !.tokenReq = chk.tokenReq,
                        !.tokenResp = tr,
                        !.check = IF chk.ok THEN "pass" ELSE "fail"]
             l1 == Send(l0, "GET", <<"v1/user">>, <<>>, userAccessToken)
         IN /\ machineAccessToken' = chk.token
            /\ \E r \in ResponsesIf(chk.ok /\ ~l1.panic, ListResponses) :
                 IF ~chk.ok
                 THEN /\ last' = l0
                      /\ UNCHANGED userAccessToken
                 ELSE IF l1.panic \/ r = NoResponse
                 THEN /\ last' = l1
                      /\ UNCHANGED userAccessToken
                 ELSE /\ userAccessToken' = Lenient_Refresh(userAccessToken, r)
                      /\ last' =
                           IF r[1].status = StatusOK
                           THEN [l1 EXCEPT !.resp = r,
                                   !.users = DecodeUsers(r[1].body, l1.users).val]
                           ELSE [l1 EXCEPT !.resp = r]
    /\ UNCHANGED <<variant, baseUrl, accountId, apiKey, concVars>>

Lenient_LoadUser ==
    /\ variant = "lenient"
    /\ \E userId \in UserIds,
          tr \in TokenInputs(machineAccessToken, accountId, apiKey) :
         LET chk == Lenient_isValidMachineAccessToken(machineAccessToken,
                                                      accountId, apiKey, tr)
             l0 == [BlankLast("LoadUser") EXCEPT !.tokenReq = chk.tokenReq,
                        !.tokenResp = tr,
                        !.check = IF chk.ok THEN "pass" ELSE "fail"]
             built == NewRequestOk(<<"v1/user/", userId>>)
             l1 == Send(l0, "GET", <<"v1/user/", userId>>, <<>>, userAccessToken)
         IN /\ machineAccessToken' = chk.token
            /\ \E r \in ResponsesIf(chk.ok /\ built /\ ~l1.panic, RecordResponses) :
                 IF ~chk.ok \/ ~built
                 THEN /\ last' = l0
                      /\ UNCHANGED userAccessToken
                 ELSE IF l1.panic \/ r = NoResponse
                 THEN /\ last' = l1
                      /\ UNCHANGED userAccessToken
                 ELSE /\ userAccessToken' = Lenient_Refresh(userAccessToken, r)
                      /\ last' =
                           IF r[1].status = StatusOK
                           THEN [l1 EXCEPT !.resp = r,
                                   !.identity = DecodeIdentity(r[1].body,
                                                               l1.identity).val]
                           ELSE [l1 EXCEPT !.resp = r]
    /\ UNCHANGED <<variant, baseUrl, accountId, apiKey, concVars>>

(* the lenient User struct holds strings only: json.Marshal cannot fail *)
Lenient_CreateUser ==
    /\ variant = "lenient"
    /\ \E user \in {"alice"},
          tr \in TokenInputs(machineAccessToken, accountId, apiKey) :
         LET chk == Lenient_isValidMachineAccessToken(machineAccessToken,
                                                      accountId, apiKey, tr)
             l0 == [BlankLast("CreateUser") EXCEPT !.tokenReq = chk.tokenReq,
                        !.tokenResp = tr,
                        !.check = IF chk.ok THEN "pass" ELSE "fail"]
             l1 == Send(l0, "POST", <<"v1/user">>, [user |-> user],
                        userAccessToken)
         IN /\ machineAccessToken' = chk.token
            /\ \E r \in ResponsesIf(chk.ok /\ ~l1.panic, RecordResponses) :
                 last' = IF ~chk.ok THEN l0
                         ELSE IF l1.panic \/ r = NoResponse THEN l1
                         ELSE [l1 EXCEPT !.resp = r,
                                         !.flag = (r[1].status = StatusOK)]
    /\ UNCHANGED <<variant, baseUrl, accountId, apiKey, userAccessToken, concVars>>

Lenient_UpdateUser ==
    /\ variant = "lenient"
    /\ \E userId \in UserIds, user \in {"alice"},
          tr \in TokenInputs(machineAccessToken, accountId, apiKey) :
         LET chk == Lenient_isValidMachineAccessToken(machineAccessToken,
                                                      accountId, apiKey, tr)
             l0 == [BlankLast("UpdateUser") EXCEPT !.tokenReq = chk.tokenReq,
                        !.tokenResp = tr,
                        !.check = IF chk.ok THEN "pass" ELSE "fail"]
             built == NewRequestOk(<<"v1/user/", userId>>)
             l1 == Send(l0, "PUT", <<"v1/user/", userId>>, [user |-> user],
                        userAccessToken)
         IN /\ machineAccessToken' = chk.token
            /\ \E r \in ResponsesIf(chk.ok /\ built /\ ~l1.panic, RecordResponses) :
                 last' = IF ~chk.ok \/ ~built THEN l0
                         ELSE IF l1.panic \/ r = NoResponse THEN l1
                         ELSE [l1 EXCEPT !.resp = r,
                                         !.flag = (r[1].status = StatusOK)]
    /\ UNCHANGED <<variant, baseUrl, accountId, apiKey, userAccessToken, concVars>>

----------------------------------------------------------------------------
(* Sequential use: one operation at a time, in any order *)
Procs == 1..NumProcs

Init ==
    /\ variant \in {"strict", "lenient"}
    /\ baseUrl = ""
    /\ accountId = NIL
    /\ apiKey = NIL
    /\ machineAccessToken = NIL
    /\ userAccessToken = NIL
    /\ last = BlankLast("none")
    /\ pc = [p \in Procs |-> "idle"]
    /\ accessToken = [p \in Procs |-> ""]
    /\ writers = <<>>
    /\ sent = [p \in Procs |-> ""]
    /\ posts = {}

Next ==
    \/ Strict_Init
    \/ Strict_Login
    \/ Strict_ListUsers
    \/ Strict_GetUser
    \/ Strict_CreateUser
    \/ Strict_UpdateUser
    \/ Lenient_Init
    \/ Lenient_Login
    \/ Lenient_ListUsers
    \/ Lenient_LoadUser
    \/ Lenient_CreateUser
    \/ Lenient_UpdateUser

Spec == Init /\ [][Next]_vars

----------------------------------------------------------------------------
(* Concurrent use: NumProcs goroutines call strict ListUsers after Init has
   run.  The package variables are shared and unguarded, so the goroutines
   interleave between the read of machineAccessToken (auth.go:57), the POST
   (auth.go:76), the store (auth.go:87) and the read for the request header
   (auth.go:168). *)
InitConc ==
    /\ variant = "strict"
    /\ baseUrl = "https://dev-api.avidbase.com/"
    /\ accountId \in {Ptr(a) : a \in Accounts}
    /\ apiKey \in {Ptr(k) : k \in Keys}
    /\ machineAccessToken = NIL
    /\ userAccessToken = NIL
    /\ last = BlankLast("none")
    /\ pc = [p \in Procs |-> "check"]
    /\ accessToken = [p \in Procs |-> ""]
    /\ writers = <<>>
    /\ sent = [p \in Procs |-> ""]
    /\ posts = {}

(* machineAccessToken = &accessToken: an unconditional store *)
StoreTokenIfAbsent(cur, new) == IF cur = NIL THEN Ptr(new) ELSE cur

StoreToken(cur, new) == Ptr(new)

Conc_Check(p) ==
    /\ pc[p] = "check"
    /\ pc' = [pc EXCEPT ![p] = IF machineAccessToken = NIL THEN "generate"
                                                           ELSE "request"]
    /\ UNCHANGED <<variant, globals, last, accessToken, writers, sent, posts>>

Conc_Generate(p) ==
    /\ pc[p] = "generate"
    /\ IF accountId = NIL \/ apiKey = NIL
       THEN /\ pc' = [pc EXCEPT ![p] = "failed"]
            /\ UNCHANGED <<accessToken, posts>>
       ELSE \E tr \in TokenResponses :
              /\ posts' = posts \cup {p}
              /\ IF tr = NoResponse \/ tr[1].status # StatusOK \/ tr[1].header = ""
                 THEN /\ pc' = [pc EXCEPT ![p] = "failed"]
                      /\ UNCHANGED accessToken
                 ELSE /\ pc' = [pc EXCEPT ![p] = "store"]
                      /\ accessToken' = [accessToken EXCEPT ![p] = tr[1].header]
    /\ UNCHANGED <<variant, globals, last, writers, sent>>

Conc_Store(p) ==
    /\ pc[p] = "store"
    /\ machineAccessToken' = StoreToken(machineAccessToken, accessToken[p])
    /\ writers' = Append(writers, accessToken[p])
    /\ pc' = [pc EXCEPT ![p] = "request"]
    /\ UNCHANGED <<variant, baseUrl, accountId, apiKey, userAccessToken, last,
                   accessToken, sent, posts>>

Conc_Request(p) ==
    /\ pc[p] = "request"
    /\ sent' = [sent EXCEPT ![p] = Deref(machineAccessToken)]
    /\ pc' = [pc EXCEPT ![p] = "done"]
    /\ UNCHANGED <<variant, globals, last, accessToken, writers, posts>>

NextConc ==
    \E p \in Procs :
        \/ Conc_Check(p)
        \/ Conc_Generate(p)
        \/ Conc_Store(p)
        \/ Conc_Request(p)

SpecConc == InitConc /\ [][NextConc]_vars

----------------------------------------------------------------------------
(* Properties *)

AuthenticatedOp(l) == l.check # "n/a"
Responded(l) == l.resp # NoResponse
LenientRefreshers == {"Login", "ListUsers", "LoadUser"}

(* C1: once a machine token is held, every later machine-token check (in
   ListUsers, GetUser/LoadUser, CreateUser, UpdateUser) passes without
   issuing another POST to v1/account/{account}/token. *)
C1_HeldTokenIsReused ==
    [][(machineAccessToken # NIL /\ AuthenticatedOp(last'))
          => (last'.check = "pass" /\ last'.tokenReq = <<>>)]_vars

(* an operation ran its check on a held token: it passed, no token POST was
   issued and the resource request went out *)
C1_Witness ==
    /\ last.check = "pass"
    /\ last.tokenReq = <<>>
    /\ last.req # <<>>
    /\ last.op = "UpdateUser"

(* the token an authenticated operation keeps for later calls: the machine
   token in package avidbase, the user token in package go_auth *)
StoredToken == IF variant = "strict" THEN machineAccessToken ELSE userAccessToken

(* C2 as stated: whenever the response to an authenticated operation (list,
   get, create, update) carries Access-Token: T2, whatever its status, the
   stored token is T2 afterwards. *)
C2_Original ==
    (AuthenticatedOp(last) /\ Responded(last) /\ last.resp[1].header # "")
        => StoredToken = Ptr(last.resp[1].header)

(* C2 amended: only lenient ListUsers and LoadUser read the response header:
   they overwrite the user token with a non-empty Access-Token header
   whatever the status; lenient CreateUser/UpdateUser and every strict
   operation leave the stored token as it was after the token check; and an
   operation that sends its request sends the token stored at that moment
   (so the call after a refresh to T2 sends T2). *)
C2_Amended ==
    [][(AuthenticatedOp(last') /\ last'.req # <<>>)
          => IF variant = "lenient"
             THEN /\ last'.req[1].token = Deref(userAccessToken)
                  /\ userAccessToken' =
                       IF /\ last'.op \in {"ListUsers", "LoadUser"}
                          /\ Responded(last')
                          /\ last'.resp[1].header # ""
                       THEN Ptr(last'.resp[1].header)
                       ELSE userAccessToken
             ELSE /\ last'.req[1].token = Deref(machineAccessToken')
                  /\ (machineAccessToken # NIL
                        => machineAccessToken' = machineAccessToken)]_vars

(* lenient LoadUser sent T1, got a non-OK response carrying another token,
   and the user token is now that token *)
C2_Witness ==
    /\ variant = "lenient"
    /\ last.op = "LoadUser"
    /\ Responded(last)
    /\ last.resp[1].status # StatusOK
    /\ last.resp[1].header # ""
    /\ last.req[1].token # last.resp[1].header
    /\ userAccessToken = Ptr(last.resp[1].header)

(* token acquisition was needed and failed: credentials absent, or the POST
   met a transport error, a non-OK status or an empty Access-Token header *)
AcquisitionFailed ==
    /\ AuthenticatedOp(last)
    /\ \/ accountId = NIL
       \/ apiKey = NIL
       \/ /\ last.tokenReq # <<>>
          /\ \/ last.tokenResp = NoResponse
             \/ last.tokenResp[1].status # StatusOK
             \/ last.tokenResp[1].header = ""

FailureResult(l) ==
    /\ ~l.panic
    /\ l.identity = ""
    /\ l.flag = FALSE
    /\ l.users.elems = <<>>
    /\ (variant = "strict" => l.err)

(* C3: when no machine token is held and acquisition fails, the operation
   returns its failure result, issues no request to v1/user or
   v1/user/{id}, and the machine token stays absent. *)
C3_FailedAcquisitionShortCircuits ==
    AcquisitionFailed
        => /\ last.check = "fail"
           /\ last.req = <<>>
           /\ last.resp = NoResponse
           /\ machineAccessToken = NIL
           /\ FailureResult(last)

(* the token endpoint answered OK without an Access-Token header, or with a
   non-OK status that did carry one *)
C3_Witness ==
    /\ AcquisitionFailed
    /\ last.tokenReq # <<>>
    /\ last.tokenResp # NoResponse
    /\ last.tokenResp[1].status # StatusOK
    /\ last.tokenResp[1].header # ""
    /\ last.op = "CreateUser"

(* C4: a response whose status is not OK never yields a populated result:
   zero-valued record, empty list, false or empty token; the strict variant
   also returns a non-nil error. *)
C4_NonOKYieldsNothing ==
    (Responded(last) /\ last.resp[1].status # StatusOK)
        => /\ last.identity = ""
           /\ last.accessToken = ""
           /\ last.flag = FALSE
           /\ (last.op = "ListUsers" => last.users = EmptySlice)
           /\ (variant = "strict" => last.err)

(* a non-OK response whose body would have decoded into a record *)
C4_Witness ==
    /\ Responded(last)
    /\ last.resp[1].status # StatusOK
    /\ last.resp[1].body.kind = "object"
    /\ last.op = "GetUser"
    /\ last.err

LoginSucceeded(l) ==
    Responded(l) /\ l.resp[1].status = StatusOK /\ l.resp[1].header # ""

(* C5 as stated: Login yields a token (returned by the strict variant, stored
   by the lenient one) only when its response has status OK and a non-empty
   Access-Token header; a failed Login leaves the user token as it was; no
   other operation sets the user token. *)
C5_Original ==
    [][/\ (last'.op = "Login" /\ ~LoginSucceeded(last'))
            => (last'.accessToken = "" /\ userAccessToken' = userAccessToken)
       /\ (last'.op # "Login" => userAccessToken' = userAccessToken)]_vars

(* C5 amended: strict Login returns a non-empty token only with status OK, a
   non-empty Access-Token header and no error, and the strict package stores
   no user token.  Lenient Login stores the Access-Token header of any
   response that carries one, whatever the status, and otherwise leaves the
   user token alone; lenient ListUsers and LoadUser overwrite the user token
   the same way; no other operation changes it. *)
C5_Amended ==
    [][IF variant = "strict"
       THEN /\ userAccessToken' = NIL
            /\ (last'.accessToken # ""
                  => /\ last'.op = "Login"
                     /\ LoginSucceeded(last')
                     /\ last'.accessToken = last'.resp[1].header
                     /\ ~last'.err)
       ELSE /\ last'.accessToken = ""
            /\ userAccessToken' =
                 IF /\ last'.op \in LenientRefreshers
                    /\ Responded(last')
                    /\ last'.resp[1].header # ""
                 THEN Ptr(last'.resp[1].header)
                 ELSE userAccessToken]_vars

(* a lenient Login that got a non-OK response with a token: logged in *)
C5_Witness ==
    /\ variant = "lenient"
    /\ last.op = "Login"
    /\ Responded(last)
    /\ last.resp[1].status # StatusOK
    /\ IsLoggedIn
    /\ GetUserAccessToken = last.resp[1].header

ExactlyOneIdentifier(b) ==
    /\ "password" \in DOMAIN b
    /\ ("email" \in DOMAIN b) # ("username" \in DOMAIN b)

(* C6 as stated: the authentication body carries password and exactly one
   of email and username: email when the identifier parses as an address,
   username otherwise. *)
C6_Original ==
    (last.op = "Login" /\ last.req # <<>>)
        => LET b == last.req[1].body
           IN /\ ExactlyOneIdentifier(b)
              /\ ("email" \in DOMAIN b => ParseAddressOk(b.email))
              /\ ("username" \in DOMAIN b => ~ParseAddressOk(b.username))

(* C6 amended: that holds of strict Login; lenient Login always sends the
   identifier as email, never as username, with password. *)
C6_Amended ==
    (last.op = "Login" /\ last.req # <<>>)
        => LET b == last.req[1].body
           IN /\ ExactlyOneIdentifier(b)
              /\ IF variant = "strict"
                 THEN /\ ("email" \in DOMAIN b => ParseAddressOk(b.email))
                      /\ ("username" \in DOMAIN b => ~ParseAddressOk(b.username))
                 ELSE "email" \in DOMAIN b

(* strict Login sent a dotted address as email *)
C6_Witness ==
    /\ variant = "strict"
    /\ last.op = "Login"
    /\ last.req # <<>>
    /\ "email" \in DOMAIN last.req[1].body
    /\ last.req[1].body.email = <<"u", ".", "u", "@", "u", ".", "u">>

ListSucceeded(l) ==
    /\ l.check = "pass"
    /\ Responded(l)
    /\ l.resp[1].status = StatusOK
    /\ l.resp[1].body.kind \in {"array", "null"}
    /\ \A i \in 1..Len(l.resp[1].body.elems) : l.resp[1].body.elems[i] # "#"

(* C7 as stated: ListUsers never returns a nil collection; on success it
   returns one record per element of the response array, in order; on every
   failure it returns an empty non-nil collection. *)
C7_ListNeverNil ==
    last.op = "ListUsers" /\ ~last.panic
        => /\ ~last.users.nil
           /\ IF ListSucceeded(last)
              THEN last.users.elems = last.resp[1].body.elems
              ELSE last.users.elems = <<>>

(* C8: goroutines that start while no machine token is held can each pass
   the nil check and each POST for a token; every store is unconditional,
   so the token left is the one of the last store. *)
C8_LastWriterWins ==
    writers # <<>> => machineAccessToken = Ptr(writers[Len(writers)])

(* two goroutines each issued a token POST and stored different tokens *)
C8_Witness ==
    /\ Cardinality(posts) >= 2
    /\ Len(writers) >= 2
    /\ writers[1] # writers[Len(writers)]
    /\ machineAccessToken = Ptr(writers[Len(writers)])
    /\ \A p \in Procs : pc[p] = "done"

(* C9 as stated: an operation that passes the machine-token check never
   dereferences a nil token when it sets the Access-Token request header. *)
C9_NoNilTokenRead ==
    last.check = "pass" => ~last.panic

(* C10: once a machine token is held no step (a second Init, a Login, any
   operation with any response) changes or clears it, and no further
   token-acquisition request is issued. *)
C10_MachineTokenNeverChanges ==
    [][machineAccessToken # NIL
          => /\ machineAccessToken' = machineAccessToken
             /\ last'.tokenReq = <<>>
             /\ last'.tokenResp = NoResponse]_vars

(* the token is held, and the last call got a non-OK response that carried
   a different Access-Token header *)
C10_Witness ==
    /\ machineAccessToken # NIL
    /\ AuthenticatedOp(last)
    /\ Responded(last)
    /\ last.resp[1].status # StatusOK
    /\ last.resp[1].header \notin {"", Deref(machineAccessToken)}

====
